---- MODULE Spec2Model ----
(***************************************************************************)
(* B-spline wavelet basis functions of sysidentpy/basis_function/_bspline.py *)
(*                                                                         *)
(* Numbers.  A float is a record [nan, q]: q counts quarters, so 2 is 1/2  *)
(* and 4 is 1.  Every breakpoint of the source is a multiple of 1/2 and    *)
(* every sample is a multiple of 1/4, all exact in binary floating point,  *)
(* so each comparison of the source is decided exactly.  NaN is the record *)
(* with nan = TRUE; every ordered comparison with it is FALSE.             *)
(*                                                                         *)
(* Values.  A constant branch yields its constant.  The body of a lambda   *)
(* branch is float arithmetic on rational literals; its result is kept as  *)
(* the term "branch br of function fn of BSpline<n> at argument at".  The  *)
(* factor 2**(j/2) is kept as the exponent j, and it leaves 0 at 0.        *)
(*                                                                         *)
(* Arrays.  An array is [shape, data] with data in row-major order; a      *)
(* Python scalar has shape <<>>.                                           *)
(***************************************************************************)
EXTENDS Integers, Sequences, FiniteSets, TLC

\* number of class definitions executed after the module's own six
MaxDefs == 1
\* largest order a later class body may set
MaxOrder == 6
\* longest sample array passed to phi, psi and decompose
MaxLen == 2
\* quarters sampled below 0 and above the last breakpoint
Margin == 3

VARIABLES defs, cls_map, inst, input, call, result

vars == <<defs, cls_map, inst, input, call, result>>

----------------------------------------------------------------------------
\* floats

NaN == [nan |-> TRUE, q |-> 0]

Real(q) == [nan |-> FALSE, q |-> q]

\* x < c
Lt(x, c) == ~x.nan /\ x.q < c

\* c <= x
Le(c, x) == ~x.nan /\ c <= x.q

\* x >= c
Ge(x, c) == ~x.nan /\ x.q >= c

\* the condition x < c of a condlist
Below(c) == [kind |-> "lt", lo |-> c, hi |-> c]

\* the condition (a <= x) & (x < b) of a condlist
Within(a, b) == [kind |-> "in", lo |-> a, hi |-> b]

\* the condition x >= c of a condlist
AtLeast(c) == [kind |-> "ge", lo |-> c, hi |-> c]

\* Holds with the upper end of an interval taken as x <= b
HoldsClosed(cond, x) ==
    CASE cond.kind = "lt" -> Lt(x, cond.hi)
      [] cond.kind = "in" -> Le(cond.lo, x) /\ ~x.nan /\ x.q <= cond.hi
      [] cond.kind = "ge" -> Ge(x, cond.lo)

\* the value of one condition for one element
Holds(cond, x) ==
    CASE cond.kind = "lt" -> Lt(x, cond.hi)
      [] cond.kind = "in" -> Le(cond.lo, x) /\ Lt(x, cond.hi)
      [] cond.kind = "ge" -> Ge(x, cond.lo)

\* a funclist entry that is a number
Const(v) == [lambda |-> FALSE, c |-> v]

\* a funclist entry that is a lambda
Lambda == [lambda |-> TRUE, c |-> 0]

----------------------------------------------------------------------------
\* the condlist and funclist of every phi and psi

\* BSpline1.phi, condlist (breakpoints in quarters: 2 is 1/2, 4 is 1)
BSpline1_phi_condlist ==
    <<
      Below(0), Within(0, 4), AtLeast(4)
    >>
\* BSpline1.phi, funclist
BSpline1_phi_funclist ==
    <<
      Const(0), Const(1), Const(0)
    >>

\* BSpline1.psi, condlist (breakpoints in quarters: 2 is 1/2, 4 is 1)
BSpline1_psi_condlist ==
    <<
      Below(0), Within(0, 2), Within(2, 4), AtLeast(4)
    >>
\* BSpline1.psi, funclist
BSpline1_psi_funclist ==
    <<
      Const(0), Const(1), Const(-1), Const(0)
    >>

\* the condlist of BSpline2.phi with its last breakpoint at 3
BSpline2_phi_condlist_wide ==
    <<
      Below(0), Within(0, 4), Within(4, 12), AtLeast(12)
    >>

\* BSpline2.phi, condlist (breakpoints in quarters: 2 is 1/2, 4 is 1)
BSpline2_phi_condlist ==
    <<
      Below(0), Within(0, 4), Within(4, 8), AtLeast(8)
    >>
\* BSpline2.phi, funclist
BSpline2_phi_funclist ==
    <<
      Const(0), Lambda, Lambda, Const(0)
    >>

\* BSpline2.psi, condlist (breakpoints in quarters: 2 is 1/2, 4 is 1)
BSpline2_psi_condlist ==
    <<
      Below(0), Within(0, 2), Within(2, 4), Within(4, 6), Within(6, 8),
      Within(8, 10), Within(10, 12), AtLeast(12)
    >>
\* BSpline2.psi, funclist
BSpline2_psi_funclist ==
    <<
      Const(0), Lambda, Lambda, Lambda, Lambda, Lambda, Lambda, Const(0)
    >>

\* BSpline3.phi, condlist (breakpoints in quarters: 2 is 1/2, 4 is 1)
BSpline3_phi_condlist ==
    <<
      Below(0), Within(0, 4), Within(4, 8), Within(8, 12), AtLeast(12)
    >>
\* BSpline3.phi, funclist
BSpline3_phi_funclist ==
    <<
      Const(0), Lambda, Lambda, Lambda, Const(0)
    >>

\* BSpline3.psi, condlist (breakpoints in quarters: 2 is 1/2, 4 is 1)
BSpline3_psi_condlist ==
    <<
      Below(0), Within(0, 2), Within(2, 4), Within(4, 6), Within(6, 8),
      Within(8, 10), Within(10, 12), Within(12, 14), Within(14, 16),
      Within(16, 18), Within(18, 20), AtLeast(20)
    >>
\* BSpline3.psi, funclist
BSpline3_psi_funclist ==
    <<
      Const(0), Lambda, Lambda, Lambda, Lambda, Lambda, Lambda, Lambda,
      Lambda, Lambda, Lambda, Const(0)
    >>

\* BSpline4.phi, condlist (breakpoints in quarters: 2 is 1/2, 4 is 1)
BSpline4_phi_condlist ==
    <<
      Below(0), Within(0, 4), Within(4, 8), Within(8, 12), Within(12, 16),
      AtLeast(16)
    >>
\* BSpline4.phi, funclist
BSpline4_phi_funclist ==
    <<
      Const(0), Lambda, Lambda, Lambda, Lambda, Const(0)
    >>

\* BSpline4.psi, condlist (breakpoints in quarters: 2 is 1/2, 4 is 1)
BSpline4_psi_condlist ==
    <<
      Below(0), Within(0, 2), Within(2, 4), Within(4, 6), Within(6, 8),
      Within(8, 10), Within(10, 12), Within(12, 14), Within(14, 16),
      Within(16, 18), Within(18, 20), Within(20, 22), Within(22, 24),
      Within(24, 26), Within(26, 28), AtLeast(28)
    >>
\* BSpline4.psi, funclist
BSpline4_psi_funclist ==
    <<
      Const(0), Lambda, Lambda, Lambda, Lambda, Lambda, Lambda, Lambda,
      Lambda, Lambda, Lambda, Lambda, Lambda, Lambda, Lambda, Const(0)
    >>

\* BSpline5.phi, condlist (breakpoints in quarters: 2 is 1/2, 4 is 1)
BSpline5_phi_condlist ==
    <<
      Below(0), Within(0, 4), Within(4, 8), Within(8, 12), Within(12, 16),
      Within(16, 20), AtLeast(20)
    >>
\* BSpline5.phi, funclist
BSpline5_phi_funclist ==
    <<
      Const(0), Lambda, Lambda, Lambda, Lambda, Lambda, Const(0)
    >>

\* BSpline5.psi, condlist (breakpoints in quarters: 2 is 1/2, 4 is 1)
BSpline5_psi_condlist ==
    <<
      Below(0), Within(0, 2), Within(2, 4), Within(4, 6), Within(6, 8),
      Within(8, 10), Within(10, 12), Within(12, 14), Within(14, 16),
      Within(16, 18), Within(18, 20), Within(20, 22), Within(22, 24),
      Within(24, 26), Within(26, 28), Within(28, 30), Within(30, 32),
      Within(32, 34), Within(34, 36), AtLeast(36)
    >>
\* BSpline5.psi, funclist
BSpline5_psi_funclist ==
    <<
      Const(0), Lambda, Lambda, Lambda, Lambda, Lambda, Lambda, Lambda,
      Lambda, Lambda, Lambda, Lambda, Lambda, Lambda, Lambda, Lambda, Lambda,
      Lambda, Lambda, Const(0)
    >>

----------------------------------------------------------------------------
\* orders and classes

\* the value None of the attribute order
None == [none |-> TRUE, n |-> 0]

\* an integer value of the attribute order
Key(n) == [none |-> FALSE, n |-> n]

\* class BSplineWavelets: order = None, phi and psi raise
BSplineWavelets == [id |-> 0, impl |-> 0, order |-> None]

BSpline1 == [id |-> 1, impl |-> 1, order |-> Key(1)]

BSpline2 == [id |-> 2, impl |-> 2, order |-> Key(2)]

BSpline3 == [id |-> 3, impl |-> 3, order |-> Key(3)]

BSpline4 == [id |-> 4, impl |-> 4, order |-> Key(4)]

BSpline5 == [id |-> 5, impl |-> 5, order |-> Key(5)]

\* the class statements of the module, in the order they are executed
ModuleClasses ==
    <<BSplineWavelets, BSpline1, BSpline2, BSpline3, BSpline4, BSpline5>>

\* Put that keeps an entry already there: cls_map.setdefault(key, cls)
PutIfAbsent(map, key, cls) ==
    [k \in DOMAIN map \cup {key} |-> IF k \in DOMAIN map THEN map[k] ELSE cls]

\* cls_map[key] = cls
Put(map, key, cls) ==
    [k \in DOMAIN map \cup {key} |-> IF k = key THEN cls ELSE map[k]]

\* MetaBSplineWavelets.__new__: key is namespace.get("order"), derived is
\* issubclass(cls, _BSplineWaveletsBase)
MetaNew(map, key, cls, derived) ==
    IF derived THEN Put(map, key, cls) ELSE map

\* one executed class statement
Def(cls, key, derived) == [cls |-> cls, key |-> key, derived |-> derived]

RECURSIVE Import(_)
\* cls_map after the first n class statements of the module
Import(n) ==
    IF n = 0 THEN << >>
    ELSE MetaNew(Import(n - 1), ModuleClasses[n].order, ModuleClasses[n], TRUE)

\* an error raised to the caller; arg is the order a message carries
Raise(err, arg) == [kind |-> "error", err |-> err, arg |-> arg]

\* Get that falls back to the base class, as the else branch of get_bspline
\* would have it
GetOrDefault(map, order) ==
    IF order \notin DOMAIN map
    THEN [kind |-> "class", cls |-> BSplineWavelets]
    ELSE [kind |-> "class", cls |-> map[order]]

\* MetaBSplineWavelets.get
Get(map, order) ==
    IF order \notin DOMAIN map
    THEN Raise("NotImplementedError", order)
    ELSE [kind |-> "class", cls |-> map[order]]

----------------------------------------------------------------------------
\* arrays

Scalar(x) == [shape |-> << >>, data |-> <<x>>]

Vec(s) == [shape |-> <<Len(s)>>, data |-> s]

Col(s) == [shape |-> <<Len(s), 1>>, data |-> s]

Array(shape, data) == [kind |-> "array", shape |-> shape, data |-> data]

\* the result of a constant branch, or 0 where no condition holds
Number(v) == [fn |-> "const", n |-> 0, br |-> 0, at |-> 0, c |-> v, j |-> 0]

\* the result of the lambda at position br of the funclist of fn of BSpline<n>
Term(n, fn, br, x) ==
    [fn |-> fn, n |-> n, br |-> br, at |-> x.q, c |-> 0, j |-> 0]

Max(S) == CHOOSE m \in S : \A o \in S : o <= m

\* the conditions np.piecewise works with: one "otherwise" condition is
\* appended when the funclist is one longer than the condlist
Hits(condlist, funclist, x) ==
    LET given == {i \in 1..Len(condlist) : Holds(condlist[i], x)}
    IN  IF Len(condlist) = Len(funclist) - 1 /\ given = {}
        THEN {Len(funclist)}
        ELSE given

\* np.piecewise for one element: y is 0, then every condition that holds
\* assigns its branch in list order, so the last one that holds stays
PiecewiseAt(x, condlist, funclist, n, fn) ==
    LET hit == Hits(condlist, funclist, x)
    IN  IF hit = {} THEN Number(0)
        ELSE IF funclist[Max(hit)].lambda
             THEN Term(n, fn, Max(hit), x)
             ELSE Number(funclist[Max(hit)].c)

\* np.piecewise(x, condlist, funclist)
Piecewise(x, condlist, funclist, n, fn) ==
    IF Len(condlist) # Len(funclist) /\ Len(condlist) # Len(funclist) - 1
    THEN Raise("ValueError", None)
    ELSE Array(x.shape,
               [i \in 1..Len(x.data) |->
                   PiecewiseAt(x.data[i], condlist, funclist, n, fn)])

Condlist(n, fn) ==
    CASE n = 1 /\ fn = "phi" -> BSpline1_phi_condlist
      [] n = 1 /\ fn = "psi" -> BSpline1_psi_condlist
      [] n = 2 /\ fn = "phi" -> BSpline2_phi_condlist
      [] n = 2 /\ fn = "psi" -> BSpline2_psi_condlist
      [] n = 3 /\ fn = "phi" -> BSpline3_phi_condlist
      [] n = 3 /\ fn = "psi" -> BSpline3_psi_condlist
      [] n = 4 /\ fn = "phi" -> BSpline4_phi_condlist
      [] n = 4 /\ fn = "psi" -> BSpline4_psi_condlist
      [] n = 5 /\ fn = "phi" -> BSpline5_phi_condlist
      [] n = 5 /\ fn = "psi" -> BSpline5_psi_condlist

Funclist(n, fn) ==
    CASE n = 1 /\ fn = "phi" -> BSpline1_phi_funclist
      [] n = 1 /\ fn = "psi" -> BSpline1_psi_funclist
      [] n = 2 /\ fn = "phi" -> BSpline2_phi_funclist
      [] n = 2 /\ fn = "psi" -> BSpline2_psi_funclist
      [] n = 3 /\ fn = "phi" -> BSpline3_phi_funclist
      [] n = 3 /\ fn = "psi" -> BSpline3_psi_funclist
      [] n = 4 /\ fn = "phi" -> BSpline4_phi_funclist
      [] n = 4 /\ fn = "psi" -> BSpline4_psi_funclist
      [] n = 5 /\ fn = "phi" -> BSpline5_phi_funclist
      [] n = 5 /\ fn = "psi" -> BSpline5_psi_funclist

\* self.phi(x): the method of the class self inherits it from
phi(self, x) ==
    IF self.impl = 0 THEN Raise("NotImplementedError", None)
    ELSE Piecewise(x, Condlist(self.impl, "phi"), Funclist(self.impl, "phi"),
                   self.impl, "phi")

\* self.psi(x)
psi(self, x) ==
    IF self.impl = 0 THEN Raise("NotImplementedError", None)
    ELSE Piecewise(x, Condlist(self.impl, "psi"), Funclist(self.impl, "psi"),
                   self.impl, "psi")

\* 2**j * x - k, elementwise
Dyadic(x, j, k) ==
    [x EXCEPT !.data = [i \in 1..Len(x.data) |->
        IF x.data[i].nan THEN NaN ELSE Real(2^j * x.data[i].q - 4 * k)]]

\* 2**(j / 2) * y, elementwise
Scale(j, y) ==
    IF y.kind = "error" THEN y
    ELSE [y EXCEPT !.data = [i \in 1..Len(y.data) |->
            IF y.data[i].fn = "const" /\ y.data[i].c = 0 THEN y.data[i]
            ELSE [y.data[i] EXCEPT !.j = j]]]

phi_j_k(self, x, j, k) == Scale(j, phi(self, Dyadic(x, j, k)))

psi_j_k(self, x, j, k) == Scale(j, psi(self, Dyadic(x, j, k)))

\* [f(k) for k in range(a, b)]
Range(a, b) == [i \in 1..(IF b > a THEN b - a ELSE 0) |-> a + i - 1]

Pairs(s) == [kind |-> "pairs", pairs |-> s]

\* phi_range with range(-(order - 1), 0): k = 0 left out
phi_range_open(self) ==
    IF self.order.none THEN Raise("TypeError", None)
    ELSE LET r == Range(-(self.order.n - 1), 0)
         IN  Pairs([i \in 1..Len(r) |-> <<0, r[i]>>])

\* the property phi_range
phi_range(self) ==
    IF self.order.none THEN Raise("TypeError", None)
    ELSE LET r == Range(-(self.order.n - 1), 1)
         IN  Pairs([i \in 1..Len(r) |-> <<0, r[i]>>])

RECURSIVE PsiLoop(_, _)
\* psi_ranges after the iterations psi_j = 0 .. j of the loop
PsiLoop(order, j) ==
    IF j < 0 THEN << >>
    ELSE LET r == Range(-(2^(order - 1)) + 1, 2^j)
         IN  PsiLoop(order, j - 1) \o [i \in 1..Len(r) |-> <<j, r[i]>>]

\* psi_range with range(order): the scale j = order left out
psi_range_short(self) ==
    IF self.order.none THEN Raise("TypeError", None)
    ELSE IF self.order.n > 0 /\ self.order.n - 1 < 0
         THEN Raise("TypeError", None)
    ELSE Pairs(PsiLoop(self.order.n, self.order.n - 1))

\* the property psi_range: when the loop body runs (order + 1 > 0) with a
\* negative exponent, 2**(order - 1) is a float and range() rejects it
psi_range(self) ==
    IF self.order.none THEN Raise("TypeError", None)
    ELSE IF self.order.n + 1 > 0 /\ self.order.n - 1 < 0
         THEN Raise("TypeError", None)
    ELSE Pairs(PsiLoop(self.order.n, self.order.n))

Count(n) == [kind |-> "int", n |-> n]

\* the property phi_len
phi_len(self) ==
    IF phi_range(self).kind = "error" THEN phi_range(self)
    ELSE Count(Len(phi_range(self).pairs))

\* the property psi_len
psi_len(self) ==
    IF psi_range(self).kind = "error" THEN psi_range(self)
    ELSE Count(Len(psi_range(self).pairs))

\* the property repetition
repetition(self) ==
    IF phi_len(self).kind = "error" THEN phi_len(self)
    ELSE IF psi_len(self).kind = "error" THEN psi_len(self)
    ELSE Count(phi_len(self).n + psi_len(self).n)

RECURSIVE Flatten(_)
\* the concatenation of a sequence of sequences
Flatten(ss) ==
    IF Len(ss) = 0 THEN << >>
    ELSE IF Len(ss) = 1 THEN ss[1]
    ELSE Flatten(SubSeq(ss, 1, Len(ss) \div 2))
            \o Flatten(SubSeq(ss, Len(ss) \div 2 + 1, Len(ss)))

\* np.atleast_1d
AtLeast1d(a) == IF a.shape = << >> THEN [a EXCEPT !.shape = <<1>>] ELSE a

\* np.hstack: 1-D arrays are joined end to end, 2-D arrays column by column
HStack(arrs) ==
    LET as == [i \in 1..Len(arrs) |-> AtLeast1d(arrs[i])]
    IN  IF Len(as) = 0 THEN Raise("ValueError", None)
        ELSE IF Len(as[1].shape) = 1
        THEN Array(<<Len(Flatten([i \in 1..Len(as) |-> as[i].data]))>>,
                   Flatten([i \in 1..Len(as) |-> as[i].data]))
        ELSE Array(<<as[1].shape[1], Len(as)>>,
                   Flatten([r \in 1..as[1].shape[1] |->
                              [i \in 1..Len(as) |-> as[i].data[r]]]))

\* the first error of a list of results, in list order
FirstError(rs) ==
    rs[CHOOSE i \in 1..Len(rs) :
        /\ rs[i].kind = "error"
        /\ \A h \in 1..(i - 1) : rs[h].kind # "error"]

HasError(rs) == \E i \in 1..Len(rs) : rs[i].kind = "error"

\* decompose with the psi entries stacked before the phi entries
decompose_psi_first(self, x) ==
    IF phi_range(self).kind = "error" THEN phi_range(self)
    ELSE LET pr   == phi_range(self).pairs
             phis == [i \in 1..Len(pr) |->
                         phi_j_k(self, x, pr[i][1], pr[i][2])]
         IN  IF HasError(phis) THEN FirstError(phis)
             ELSE IF psi_range(self).kind = "error" THEN psi_range(self)
             ELSE LET sr   == psi_range(self).pairs
                      psis == [i \in 1..Len(sr) |->
                                  psi_j_k(self, x, sr[i][1], sr[i][2])]
                  IN  IF HasError(psis) THEN FirstError(psis)
                      ELSE HStack(psis \o phis)

\* decompose: the phi list is built first, then the psi list, then hstack
decompose(self, x) ==
    IF phi_range(self).kind = "error" THEN phi_range(self)
    ELSE LET pr   == phi_range(self).pairs
             phis == [i \in 1..Len(pr) |->
                         phi_j_k(self, x, pr[i][1], pr[i][2])]
         IN  IF HasError(phis) THEN FirstError(phis)
             ELSE IF psi_range(self).kind = "error" THEN psi_range(self)
             ELSE LET sr   == psi_range(self).pairs
                      psis == [i \in 1..Len(sr) |->
                                  psi_j_k(self, x, sr[i][1], sr[i][2])]
                  IN  IF HasError(psis) THEN FirstError(psis)
                      ELSE HStack(phis \o psis)

\* BSplineWavelets.get_bspline: a class object is always true, so the
\* class found is the one instantiated
get_bspline(map, order) ==
    IF Get(map, order).kind = "error" THEN Get(map, order)
    ELSE [kind |-> "instance", cls |-> Get(map, order).cls]

----------------------------------------------------------------------------
\* inputs

\* the sample points: every quarter from below 0 to above 2 * 5 - 1
Quarters == (0 - Margin)..(4 * 9 + Margin)

Floats == {Real(q) : q \in Quarters} \cup {NaN}

\* the elements of sample arrays: NaN, a breakpoint, an inner point
Samples == {NaN, Real(2), Real(5)}

Seqs(S, n) == UNION {[1..m -> S] : m \in 1..n}

\* what phi, psi and decompose are called with: a scalar, N samples, a
\* column of N samples
Inputs ==
    {Scalar(v) : v \in Floats}
        \cup {Vec(s) : s \in Seqs(Samples, MaxLen)}
        \cup {Col(s) : s \in Seqs(Samples, MaxLen)}

\* the orders a caller asks for
Orders == {None} \cup {Key(n) : n \in (0 - 1)..MaxOrder}

\* a class body without "order = ..." and the bodies that set it
NoOrder == [has |-> FALSE, order |-> None]

Bodies ==
    {NoOrder} \cup {[has |-> TRUE, order |-> Key(n)] : n \in {0 - 1, 0, 1, MaxOrder}}

NoInst == [id |-> 0 - 1, impl |-> 0, order |-> None]

NoCall == [name |-> "import", order |-> None]

Nothing == [kind |-> "none"]

\* the classes defined so far
Classes == {defs[i].cls : i \in 1..Len(defs)}

----------------------------------------------------------------------------
\* the state machine

\* the state once the module is imported
Imported ==
    /\ defs = [i \in 1..Len(ModuleClasses) |->
                 Def(ModuleClasses[i], ModuleClasses[i].order, TRUE)]
    /\ cls_map = Import(Len(ModuleClasses))
    /\ inst = NoInst
    /\ call = NoCall
    /\ result = Nothing

\* a caller with its input data
Init == Imported /\ input \in Inputs

\* a caller that defines classes and looks them up
InitRegistry == Imported /\ input = Scalar(NaN)

\* a class statement with metaclass MetaBSplineWavelets: derived from a class
\* of the family (parent), or from no class of the family (derived = FALSE)
DefineClass(parent, derived, body) ==
    /\ Len(defs) < Len(ModuleClasses) + MaxDefs
    /\ LET cls == [id |-> Len(defs),
                   impl |-> IF derived THEN parent.impl ELSE 0,
                   order |-> IF body.has THEN body.order
                             ELSE IF derived THEN parent.order ELSE None]
           key == IF body.has THEN body.order ELSE None
       IN  /\ defs' = Append(defs, Def(cls, key, derived))
           /\ cls_map' = MetaNew(cls_map, key, cls, derived)
    /\ call' = [name |-> "class", order |-> body.order]
    /\ result' = Nothing
    /\ UNCHANGED <<inst, input>>

\* class User(parent): ...
DefineSubclass(parent, body) == DefineClass(parent, TRUE, body)

\* class Other(metaclass=MetaBSplineWavelets): ...
DefineOther(body) == DefineClass(BSplineWavelets, FALSE, body)

\* b = BSplineWavelets.get_bspline(order)
GetBSpline(order) ==
    /\ call' = [name |-> "get_bspline", order |-> order]
    /\ result' = get_bspline(cls_map, order)
    /\ inst' = IF result'.kind = "instance" THEN result'.cls ELSE inst
    /\ UNCHANGED <<defs, cls_map, input>>

\* b.phi(input)
CallPhi ==
    /\ inst # NoInst
    /\ call' = [name |-> "phi", order |-> None]
    /\ result' = phi(inst, input)
    /\ UNCHANGED <<defs, cls_map, inst, input>>

\* b.psi(input)
CallPsi ==
    /\ inst # NoInst
    /\ call' = [name |-> "psi", order |-> None]
    /\ result' = psi(inst, input)
    /\ UNCHANGED <<defs, cls_map, inst, input>>

\* b.decompose(input)
CallDecompose ==
    /\ inst # NoInst
    /\ call' = [name |-> "decompose", order |-> None]
    /\ result' = decompose(inst, input)
    /\ UNCHANGED <<defs, cls_map, inst, input>>

\* b.phi_range, b.psi_range, b.phi_len, b.psi_len, b.repetition
ReadProperty(name) ==
    /\ inst # NoInst
    /\ call' = [name |-> name, order |-> None]
    /\ result' = CASE name = "phi_range" -> phi_range(inst)
                   [] name = "psi_range" -> psi_range(inst)
                   [] name = "phi_len" -> phi_len(inst)
                   [] name = "psi_len" -> psi_len(inst)
                   [] name = "repetition" -> repetition(inst)
    /\ UNCHANGED <<defs, cls_map, inst, input>>

Properties == {"phi_range", "psi_range", "phi_len", "psi_len", "repetition"}

\* evaluation with the classes of the module
Next ==
    \/ \E order \in Orders : GetBSpline(order)
    \/ CallPhi
    \/ CallPsi
    \/ CallDecompose
    \/ \E name \in Properties : ReadProperty(name)

\* class definitions, lookups and the index ranges
NextRegistry ==
    \/ \E parent \in Classes, body \in Bodies : DefineSubclass(parent, body)
    \/ \E body \in Bodies : DefineOther(body)
    \/ \E order \in Orders : GetBSpline(order)
    \/ \E name \in Properties : ReadProperty(name)

Spec == Init /\ [][Next]_vars

SpecRegistry == InitRegistry /\ [][NextRegistry]_vars

----------------------------------------------------------------------------
\* the index ranges

\* the instance has an integer order of at least 1
ValidOrder == ~inst.order.none /\ inst.order.n >= 1

\* (j, k) comes before (j2, k2): j ascending, k ascending within j
Before(p, r) == p[1] < r[1] \/ (p[1] = r[1] /\ p[2] < r[2])

\* the pairs the wavelet family of order n has
PsiPairs(n) ==
    {p \in (0..n) \X ((1 - 2^(n - 1))..(2^n - 1)) : p[2] <= 2^p[1] - 1}

\* C1: for an order n >= 1, psi_range lists every pair (j, k) with j in 0..n
\* and k in -2^(n-1)+1 .. 2^j - 1 exactly once, j ascending and k ascending
\* within j; psi_len is their number; for n = 1 the list is
\* (0,0), (1,0), (1,1) and psi_len is 3
C1_PsiRangeEnumeration ==
    /\ (call.name = "psi_range" /\ ValidOrder) =>
          /\ result.kind = "pairs"
          /\ {result.pairs[i] : i \in 1..Len(result.pairs)}
                = PsiPairs(inst.order.n)
          /\ \A i \in 1..(Len(result.pairs) - 1) :
                Before(result.pairs[i], result.pairs[i + 1])
          /\ inst.order.n = 1 => result.pairs = <<<<0, 0>>, <<1, 0>>, <<1, 1>>>>
    /\ (call.name = "psi_len" /\ ValidOrder) =>
          /\ result.kind = "int"
          /\ result.n = Cardinality(PsiPairs(inst.order.n))
          /\ inst.order.n = 1 => result.n = 3

\* psi_range was read on an instance of order 3: 27 pairs, the last (3, 7)
C1_Witness ==
    /\ call.name = "psi_range"
    /\ inst.order = Key(3)
    /\ result.kind = "pairs"
    /\ Len(result.pairs) = 27
    /\ result.pairs[1] = <<0, 0 - 3>>
    /\ result.pairs[27] = <<3, 7>>

\* C2: for an order n >= 1, phi_range is (0, -(n-1)), ..., (0, 0) with k
\* ascending, and phi_len is n
C2_PhiRangeEnumeration ==
    /\ (call.name = "phi_range" /\ ValidOrder) =>
          /\ result.kind = "pairs"
          /\ result.pairs = [i \in 1..inst.order.n |-> <<0, i - inst.order.n>>]
    /\ (call.name = "phi_len" /\ ValidOrder) =>
          /\ result.kind = "int"
          /\ result.n = inst.order.n

\* phi_range was read on an instance of order 4
C2_Witness ==
    /\ call.name = "phi_range"
    /\ inst.order = Key(4)
    /\ result.kind = "pairs"
    /\ result.pairs = <<<<0, 0 - 3>>, <<0, 0 - 2>>, <<0, 0 - 1>>, <<0, 0>>>>

----------------------------------------------------------------------------
\* decompose

\* the position (from 0) of the first pair of scale j in the psi entries
Offset(n, j) == j * (2^(n - 1) - 1) + 2^j - 1

\* the number of entries of a feature vector of order n
FeatureLength(n) == n + Offset(n, n + 1)

\* the entry a feature vector of order n has at position i (from 1)
Entry(self, v, n, i) ==
    IF i <= n
    THEN phi_j_k(self, v, 0, i - n).data[1]
    ELSE LET p == i - n - 1
             j == CHOOSE s \in 0..n : Offset(n, s) <= p /\ p < Offset(n, s + 1)
         IN  psi_j_k(self, v, j, p - Offset(n, j) + 1 - 2^(n - 1)).data[1]

\* C3: decompose of a scalar returns phi_len + psi_len = repetition entries:
\* first phi_j_k for the pairs of phi_range in order, then psi_j_k for the
\* pairs of psi_range in order; the length is the same for every value
C3_DecomposeLayout ==
    (call.name = "decompose" /\ input.shape = << >> /\ ValidOrder
        /\ inst.impl >= 1) =>
        /\ result.kind = "array"
        /\ result.shape = <<FeatureLength(inst.order.n)>>
        /\ Len(result.data) = FeatureLength(inst.order.n)
        /\ repetition(inst) = Count(FeatureLength(inst.order.n))
        /\ \A i \in 1..Len(result.data) :
              result.data[i] = Entry(inst, input, inst.order.n, i)

\* decompose(1/2) of order 2: 12 entries; phi_{0,0} is branch 2 of phi at
\* 1/2 and the last entry, psi_{2,3}, is 0
C3_Witness ==
    /\ call.name = "decompose"
    /\ inst = BSpline2
    /\ input = Scalar(Real(2))
    /\ result.kind = "array"
    /\ Len(result.data) = 12
    /\ result.data[2] = Term(2, "phi", 2, Real(2))
    /\ result.data[12] = Number(0)

\* the rows of a result of shape (N, F)
Row(a, r) == SubSeq(a.data, (r - 1) * a.shape[2] + 1, r * a.shape[2])

\* C5: decompose of a 1-D array of N samples has N rows and
\* feature_length columns, and row i is decompose of sample i alone
C5_BatchRows ==
    (call.name = "decompose" /\ Len(input.shape) = 1 /\ ValidOrder
        /\ inst.impl >= 1) =>
        /\ result.kind = "array"
        /\ result.shape = <<input.shape[1], FeatureLength(inst.order.n)>>
        /\ \A r \in 1..input.shape[1] :
              Row(result, r) = decompose(inst, Scalar(input.data[r])).data

\* C9: an element no condition holds for (NaN) makes phi, psi and decompose
\* fail with InvalidInputError, for a batch as a whole
C9_NaNRejected ==
    (call.name \in {"phi", "psi", "decompose"} /\ ValidOrder /\ inst.impl >= 1
        /\ \E i \in 1..Len(input.data) : input.data[i].nan) =>
        /\ result.kind = "error"
        /\ result.err = "InvalidInputError"

----------------------------------------------------------------------------
\* the conditions of phi and psi

\* the conditions of the called function that hold for an element
Matching(v) ==
    {c \in 1..Len(Condlist(inst.impl, call.name)) :
        Holds(Condlist(inst.impl, call.name)[c], v)}

\* C6: for each order 1..5, phi and psi: every real element, breakpoints and
\* points outside them included, satisfies exactly one condition, and there
\* are as many branches as conditions
C6_Partition ==
    (call.name \in {"phi", "psi"} /\ inst.impl >= 1) =>
        /\ Len(Condlist(inst.impl, call.name))
              = Len(Funclist(inst.impl, call.name))
        /\ result.kind = "array"
        /\ \A i \in 1..Len(input.data) :
              ~input.data[i].nan =>
                 /\ Cardinality(Matching(input.data[i])) = 1
                 /\ \A c \in Matching(input.data[i]) :
                       result.data[i] =
                          IF Funclist(inst.impl, call.name)[c].lambda
                          THEN Term(inst.impl, call.name, c, input.data[i])
                          ELSE Number(Funclist(inst.impl, call.name)[c].c)

\* psi of order 5 at the breakpoint 17/2 took branch 19, the one that
\* starts there
C6_Witness ==
    /\ call.name = "psi"
    /\ inst = BSpline5
    /\ input = Scalar(Real(34))
    /\ result.kind = "array"
    /\ result.data[1] = Term(5, "psi", 19, Real(34))

\* the end of the support of the called function, in quarters
SupportEnd ==
    IF call.name = "phi" THEN 4 * inst.impl ELSE 4 * (2 * inst.impl - 1)

\* C7: for each order n in 1..5, phi is 0 below 0 and from n on, psi is 0
\* below 0 and from 2n - 1 on: the first and the last branch are the
\* constant 0, the outermost breakpoints are 0 and n, or 0 and 2n - 1
C7_CompactSupport ==
    (call.name \in {"phi", "psi"} /\ inst.impl >= 1) =>
        LET conds == Condlist(inst.impl, call.name)
            funcs == Funclist(inst.impl, call.name)
        IN  /\ conds[1] = Below(0)
            /\ conds[Len(conds)] = AtLeast(SupportEnd)
            /\ funcs[1] = Const(0)
            /\ funcs[Len(funcs)] = Const(0)
            /\ result.kind = "array"
            /\ \A i \in 1..Len(input.data) :
                  (~input.data[i].nan
                      /\ (input.data[i].q < 0 \/ input.data[i].q >= SupportEnd))
                  => result.data[i] = Number(0)

\* phi of order 3 was called at 3, the end of its support, and returned 0
C7_Witness ==
    /\ call.name = "phi"
    /\ inst = BSpline3
    /\ input = Scalar(Real(12))
    /\ result.kind = "array"
    /\ result.data = <<Number(0)>>

----------------------------------------------------------------------------
\* the registry

\* C4: get_bspline returns an instance of the class registered for the
\* order; for an order without one it raises the error that carries the
\* order, constructs no instance and leaves the registry as it was
C4_Resolve ==
    [][call'.name = "get_bspline" =>
          /\ cls_map' = cls_map
          /\ defs' = defs
          /\ IF call'.order \in DOMAIN cls_map
             THEN /\ result' = [kind |-> "instance",
                                cls |-> cls_map[call'.order]]
                  /\ inst' = cls_map[call'.order]
             ELSE /\ result' = Raise("NotImplementedError", call'.order)
                  /\ inst' = inst]_vars

\* after an instance of order 2 was made, order -1 was asked for and refused
C4_Witness ==
    /\ call.name = "get_bspline"
    /\ call.order = Key(0 - 1)
    /\ result = Raise("NotImplementedError", Key(0 - 1))
    /\ inst = BSpline2

\* C8: the index ranges of an instance whose order is below 1 fail with
\* InvalidOrderError and never return a list
C8_InvalidOrder ==
    (call.name \in Properties /\ ~inst.order.none /\ inst.order.n < 1) =>
        /\ result.kind = "error"
        /\ result.err = "InvalidOrderError"

\* the class statements derived from the base that registered under key
Registrations(key) ==
    {i \in 1..Len(defs) : defs[i].derived /\ defs[i].key = key}

\* C10: after any class statements, each order resolves to the class of the
\* last statement that registered for it; a repeated order raises nothing
\* and every other entry is the one its own last statement made
C10_LastRegistrationWins ==
    /\ \A key \in Orders :
          IF Registrations(key) = {}
          THEN key \notin DOMAIN cls_map
          ELSE /\ key \in DOMAIN cls_map
               /\ cls_map[key] = defs[Max(Registrations(key))].cls
    /\ call.name = "class" => result = Nothing
    /\ (call.name = "get_bspline" /\ Registrations(call.order) # {}) =>
          result = [kind |-> "instance",
                    cls |-> defs[Max(Registrations(call.order))].cls]

\* a later class with order = 1 took the entry of BSpline1 and is what order
\* 1 resolves to, the entry of order 2 being BSpline2 as before
C10_Witness ==
    /\ call.name = "get_bspline"
    /\ call.order = Key(1)
    /\ Cardinality(Registrations(Key(1))) = 2
    /\ result.kind = "instance"
    /\ result.cls.id = Len(ModuleClasses)
    /\ cls_map[Key(2)] = BSpline2

====
